---------------------------- MODULE Spec2Model ----------------------------
(***************************************************************************)
(* A model of extended_path.ExtendedPath (src/extended_path/__init__.py):  *)
(* a pathlib.Path subclass that converts its arguments to path fragments,  *)
(* validates the joined path with pathvalidate.validate_filepath under     *)
(* platform="auto", and adds freshness queries, write/delete helpers and   *)
(* two cached readers.                                                     *)
(*                                                                         *)
(* Texts are sequences of one-character strings; byte strings are          *)
(* sequences of byte tokens (an ASCII byte is its character, any other     *)
(* byte is a token such as "xC3"; a non-ASCII character is a token such    *)
(* as "U+E9").  The interpreter is CPython <= 3.11,    *)
(* the versions on which subclassing type(Path()) works as the source's    *)
(* comment (lines 17-19) describes.  Paths carry no Windows drive: no      *)
(* input of the model has a drive prefix.                                  *)
(***************************************************************************)
EXTENDS Integers, Sequences, FiniteSets, TLC

VARIABLES platform, localOff, objs, fs, clock, ret

vars == <<platform, localOff, objs, fs, clock, ret>>

---------------------------------------------------------------------------
(* Bounds of the model.                                                    *)

MaxDepth == 2
MaxClock == 2

---------------------------------------------------------------------------
(* Characters, texts and bytes.                                            *)

LowerLetters == <<"a","b","c","d","e","f","g","h","i","j","k","l","m",
                  "n","o","p","q","r","s","t","u","v","w","x","y","z">>
UpperLetters == <<"A","B","C","D","E","F","G","H","I","J","K","L","M",
                  "N","O","P","Q","R","S","T","U","V","W","X","Y","Z">>

UpperChar(c) ==
    IF \E i \in 1..26 : LowerLetters[i] = c
    THEN UpperLetters[CHOOSE i \in 1..26 : LowerLetters[i] = c]
    ELSE c

ToUpper(s) == [i \in 1..Len(s) |-> UpperChar(s[i])]

LowerChar(c) ==
    IF \E i \in 1..26 : UpperLetters[i] = c
    THEN LowerLetters[CHOOSE i \in 1..26 : UpperLetters[i] = c]
    ELSE c

ToLower(s) == [i \in 1..Len(s) |-> LowerChar(s[i])]

Rep(c, n) == [i \in 1..n |-> c]

RECURSIVE Flatten(_)
Flatten(ss) == IF ss = <<>> THEN <<>> ELSE Head(ss) \o Flatten(Tail(ss))

(* The UTF-8 encoding of one character. *)
Utf8Char(c) ==
    CASE c = "U+E9" -> <<"xC3", "xA9">>
      [] c = "U+20AC" -> <<"xE2", "x82", "xAC">>
      [] c = "U+1F600" -> <<"xF0", "x9F", "x98", "x80">>
      [] OTHER -> <<c>>

Utf8Encode(s) == Flatten([i \in 1..Len(s) |-> Utf8Char(s[i])])

(* len(s.encode("utf-8")) *)
Utf8Len(s) ==
    Len(s) + Cardinality({i \in 1..Len(s) : s[i] = "U+E9"})
           + 2 * Cardinality({i \in 1..Len(s) : s[i] = "U+20AC"})
           + 3 * Cardinality({i \in 1..Len(s) : s[i] = "U+1F600"})

---------------------------------------------------------------------------
(* Values: pure paths, cache slots, objects, inputs.                       *)

Pure(root, parts) == [root |-> root, parts |-> parts]

DotPath == Pure(FALSE, <<>>)

(* A cache attribute: missing ("unset"), None ("none") or a value. *)
SlotUnset == [st |-> "unset", v |-> <<>>]
SlotNone == [st |-> "none", v |-> <<>>]
SlotVal(v) == [st |-> "val", v |-> v]

NoObj == [live |-> FALSE, root |-> FALSE, parts |-> <<>>,
          text |-> SlotUnset, bytes |-> SlotUnset]

Obj(pure, text, bytes) ==
    [live |-> TRUE, root |-> pure.root, parts |-> pure.parts,
     text |-> text, bytes |-> bytes]

PureOf(o) == Pure(o.root, o.parts)

StrIn(s) == [kind |-> "str", s |-> s, t |-> <<0, 0, 0>>, pure |-> DotPath]
BytesIn(b) == [kind |-> "bytes", s |-> b, t |-> <<0, 0, 0>>, pure |-> DotPath]
IntIn(n) == [kind |-> "int", s |-> <<>>, t |-> <<n, 0, 0>>, pure |-> DotPath]
(* The float m / 10^e, e >= 1, m >= 0 with no trailing zero beyond e = 1. *)
FloatIn(m, e) == [kind |-> "float", s |-> <<>>, t |-> <<m, e, 0>>, pure |-> DotPath]
DateIn(y, m, d) == [kind |-> "date", s |-> <<>>, t |-> <<y, m, d>>, pure |-> DotPath]
(* A datetime whose POSIX timestamp is sec + micro / 10^6, 0 <= micro. *)
DatetimeIn(sec, micro) ==
    [kind |-> "datetime", s |-> <<>>, t |-> <<sec, micro, 0>>, pure |-> DotPath]
PathIn(pure) == [kind |-> "path", s |-> <<>>, t |-> <<0, 0, 0>>, pure |-> pure]

NoIn == [kind |-> "none", s |-> <<>>, t |-> <<0, 0, 0>>, pure |-> DotPath]

---------------------------------------------------------------------------
(* str() of the argument kinds (Python's built-in conversions).            *)

Digits == <<"0","1","2","3","4","5","6","7","8","9">>

RECURSIVE NatToStr(_)
NatToStr(n) ==
    IF n < 10 THEN <<Digits[n + 1]>>
    ELSE NatToStr(n \div 10) \o <<Digits[(n % 10) + 1]>>

IntToStr(n) == IF n < 0 THEN <<"-">> \o NatToStr(0 - n) ELSE NatToStr(n)

RECURSIVE Pow10(_)
Pow10(e) == IF e = 0 THEN 1 ELSE 10 * Pow10(e - 1)

ZeroPad(s, w) == IF Len(s) >= w THEN s ELSE Rep("0", w - Len(s)) \o s

FloatToStr(m, e) ==
    NatToStr(m \div Pow10(e)) \o <<".">> \o ZeroPad(NatToStr(m % Pow10(e)), e)

DateToStr(y, m, d) ==
    ZeroPad(NatToStr(y), 4) \o <<"-">> \o ZeroPad(NatToStr(m), 2)
        \o <<"-">> \o ZeroPad(NatToStr(d), 2)

(* int(sec + micro / 10^6) truncates toward zero. *)
TruncTimestamp(sec, micro) == IF sec < 0 /\ micro > 0 THEN sec + 1 ELSE sec

(* The hex digits repr() prints for the bytes outside ASCII. *)
ByteHex ==
    ("xC3" :> <<"c", "3">>) @@ ("xA9" :> <<"a", "9">>) @@ ("xE2" :> <<"e", "2">>)
    @@ ("x82" :> <<"8", "2">>) @@ ("xAC" :> <<"a", "c">>) @@ ("xF0" :> <<"f", "0">>)
    @@ ("x9F" :> <<"9", "f">>) @@ ("x98" :> <<"9", "8">>) @@ ("x80" :> <<"8", "0">>)
    @@ ("xFF" :> <<"f", "f">>)

(* repr() of one byte inside a bytes literal. *)
ByteRepr(b, quote) ==
    CASE b = "\\" -> <<"\\", "\\">>
      [] b = quote -> <<"\\", quote>>
      [] b = "LF" -> <<"\\", "n">>
      [] b = "CR" -> <<"\\", "r">>
      [] b \in DOMAIN ByteHex -> <<"\\", "x">> \o ByteHex[b]
      [] OTHER -> <<b>>

(* str(bytes) is the bytes literal: b'...' (b"..." when the value holds a
   single quote and no double quote). *)
BytesToStr(b) ==
    LET hasS == \E i \in 1..Len(b) : b[i] = "'"
        hasD == \E i \in 1..Len(b) : b[i] = "\""
        quote == IF hasS /\ ~hasD THEN "\"" ELSE "'"
    IN <<"b", quote>> \o Flatten([i \in 1..Len(b) |-> ByteRepr(b[i], quote)])
          \o <<quote>>

---------------------------------------------------------------------------
(* pathlib (CPython 3.11): parsing, joining and printing of paths.         *)

Flavour(pf) == IF pf = "Windows" THEN "nt" ELSE "posix"

Seps(flav) == IF flav = "nt" THEN {"/", "\\"} ELSE {"/"}

Sep(flav) == IF flav = "nt" THEN "\\" ELSE "/"

(* s split at every character of seps (str.split). *)
Split(s, seps) ==
    LET P == {i \in 1..Len(s) : s[i] \in seps}
        B == {0} \cup P \cup {Len(s) + 1}
        Bnd(k) == CHOOSE b \in B : Cardinality({x \in B : x < b}) = k
    IN [k \in 1..(Cardinality(P) + 1) |-> SubSeq(s, Bnd(k - 1) + 1, Bnd(k) - 1)]

(* _Flavour.parse_parts for one string: the root, and the parts without
   the empty and "." ones. *)
ParseParts(flav, s) ==
    Pure(Len(s) > 0 /\ s[1] \in Seps(flav),
         SelectSeq(Split(s, Seps(flav)), LAMBDA x : x # <<>> /\ x # <<".">>))

(* join_parsed_parts: a rooted right operand replaces the left one. *)
JoinParsed(a, b) ==
    IF b.root THEN b ELSE Pure(a.root, a.parts \o b.parts)

RECURSIVE JoinAll(_)
JoinAll(frags) ==
    IF frags = <<>> THEN DotPath
    ELSE JoinParsed(JoinAll(SubSeq(frags, 1, Len(frags) - 1)), frags[Len(frags)])

RECURSIVE JoinWith(_, _)
JoinWith(parts, sep) ==
    IF parts = <<>> THEN <<>>
    ELSE IF Len(parts) = 1 THEN parts[1]
    ELSE parts[1] \o <<sep>> \o JoinWith(Tail(parts), sep)

(* str(path) *)
PathStr(flav, p) ==
    IF ~p.root /\ p.parts = <<>> THEN <<".">>
    ELSE (IF p.root THEN <<Sep(flav)>> ELSE <<>>) \o JoinWith(p.parts, Sep(flav))

(* path.parent *)
Parent(p) ==
    IF p.parts = <<>> THEN p
    ELSE Pure(p.root, SubSeq(p.parts, 1, Len(p.parts) - 1))

---------------------------------------------------------------------------
(* pathvalidate.validate_filepath(path, platform="auto"), as called at     *)
(* lines 36 and 51: "auto" selects the rules of the platform the program   *)
(* runs on.                                                                *)

Platforms == {"Linux", "Windows", "macOS"}

WinDevices ==
    {<<"C","O","N">>, <<"P","R","N">>, <<"A","U","X">>, <<"N","U","L">>,
     <<"C","L","O","C","K","$">>}
    \cup {<<"C","O","M", Digits[d + 1]>> : d \in 1..9}
    \cup {<<"L","P","T", Digits[d + 1]>> : d \in 1..9}

(* FilePathValidator.reserved_keywords *)
FilePathReserved(pf) ==
    CASE pf = "Linux" -> {<<"/">>}
      [] pf = "macOS" -> {<<"/">>, <<":">>}
      [] OTHER -> {}

(* FileNameValidator.reserved_keywords *)
FileNameReserved(pf) ==
    CASE pf = "Windows" -> WinDevices
      [] pf = "macOS" -> {<<":">>}
      [] OTHER -> {}

(* The default max_len of a file path, in bytes. *)
MaxPathLen(pf) ==
    CASE pf = "Linux" -> 4096
      [] pf = "Windows" -> 260
      [] OTHER -> 1024

ControlChars == {"U+0", "U+1", "U+7F"}

InvalidPathChars(pf) ==
    IF pf = "Windows"
    THEN ControlChars \cup {":", "*", "?", "\"", "<", ">", "|", "TAB", "LF", "CR"}
    ELSE ControlChars

SetMax(S) == CHOOSE x \in S : \A y \in S : y <= x

(* os.path.basename of the host *)
Basename(flav, s) ==
    LET P == {i \in 1..Len(s) : s[i] \in Seps(flav)}
    IN IF P = {} THEN s ELSE SubSeq(s, SetMax(P) + 1, Len(s))

(* os.path.splitext(name)[0]: the last dot splits, leading dots do not. *)
RootName(name) ==
    LET D == {i \in 1..Len(name) : name[i] = "."}
    IN IF D # {} /\ (\E j \in 1..(SetMax(D) - 1) : name[j] # ".")
       THEN SubSeq(name, 1, SetMax(D) - 1)
       ELSE name

(* BaseValidator._validate_reserved_keywords *)
ReservedHit(flav, keywords, name) ==
    LET base == Basename(flav, name)
    IN ToUpper(RootName(base)) \in keywords \/ ToUpper(base) \in keywords

(* ntpath.splitdrive finds a drive *)
HasDrive(s) == Len(s) >= 2 /\ s[2] = ":"

(* FilePathValidator.validate_abspath raises *)
AbspathError(pf, s) ==
    LET posixAbs == Len(s) > 0 /\ s[1] = "/"
        ntAbs == \/ Len(s) > 0 /\ s[1] \in {"/", "\\"}
                 \/ Len(s) > 2 /\ HasDrive(s) /\ s[3] \in {"/", "\\"}
    IN IF (pf = "Windows" /\ ntAbs) \/ (pf = "Linux" /\ posixAbs) THEN FALSE
       ELSE IF pf = "Windows" /\ posixAbs THEN TRUE
       ELSE pf # "Windows" /\ HasDrive(s) /\ ntAbs

(* FilePathValidator.validate: "" when the path is accepted, otherwise the
   ErrorReason of the ValidationError raised, the first check that fails. *)
ValidateFilepath(pf, s) ==
    LET flav == Flavour(pf)
        tail == IF pf = "Windows" /\ HasDrive(s) THEN SubSeq(s, 3, Len(s)) ELSE s
        entries == SelectSeq(Split(tail, {"/", "\\"}),
                             LAMBDA e : e # <<>> /\ e # <<".">> /\ e # <<".", ".">>)
    IN IF AbspathError(pf, s) THEN "MALFORMED_ABS_PATH"
       ELSE IF tail = <<>> THEN ""
       ELSE IF Utf8Len(tail) > MaxPathLen(pf) THEN "INVALID_LENGTH"
       ELSE IF ReservedHit(flav, FilePathReserved(pf), tail) THEN "RESERVED_NAME"
       ELSE IF \E i \in 1..Len(entries) :
                  ReservedHit(flav, FileNameReserved(pf), entries[i])
            THEN "RESERVED_NAME"
       ELSE IF \E i \in 1..Len(tail) : tail[i] \in InvalidPathChars(pf)
            THEN "INVALID_CHARACTER"
       ELSE ""

---------------------------------------------------------------------------
(* ExtendedPath: conversion, construction, append.                         *)

(* _convert_to_path, lines 54-76 *)
ConvertToPath(flav, v) ==
    CASE v.kind = "datetime" -> ParseParts(flav, IntToStr(TruncTimestamp(v.t[1], v.t[2])))
      [] v.kind = "date" -> ParseParts(flav, DateToStr(v.t[1], v.t[2], v.t[3]))
      [] v.kind = "float" -> ParseParts(flav, FloatToStr(v.t[1], v.t[2]))
      [] v.kind = "int" -> ParseParts(flav, IntToStr(v.t[1]))
      [] v.kind = "str" -> ParseParts(flav, v.s)
      [] v.kind = "bytes" -> ParseParts(flav, BytesToStr(v.s))
      [] OTHER -> v.pure

(* __new__ and __init__, lines 29-46: the exception raised ("" for none)
   and the object made, its two cache attributes None. *)
ConstructResult(pf, args) ==
    LET flav == Flavour(pf)
        full == JoinAll([i \in 1..Len(args) |-> ConvertToPath(flav, args[i])])
        err == ValidateFilepath(pf, PathStr(flav, full))
    IN [exc |-> err,
        obj |-> IF err = "" THEN Obj(full, SlotNone, SlotNone) ELSE NoObj]

(* __truediv__, lines 49-52: pathlib makes the child with object.__new__
   and never runs __init__, so the child has neither cache attribute. *)
AppendResult(pf, o, key) ==
    LET flav == Flavour(pf)
        full == JoinParsed(PureOf(o), ConvertToPath(flav, key))
        err == ValidateFilepath(pf, PathStr(flav, full))
    IN [exc |-> err,
        obj |-> IF err = "" THEN Obj(full, SlotUnset, SlotUnset) ELSE NoObj]

---------------------------------------------------------------------------
(* The filesystem under the current directory: each relative path is       *)
(* absent, a regular file or a directory; a path exists only under         *)
(* directories.  The current directory itself (the empty path) is always   *)
(* a directory.                                                            *)

FsNames == {<<"a">>, <<"b">>}

RECURSIVE PathsOfLen(_)
PathsOfLen(n) ==
    IF n = 0 THEN {<<>>}
    ELSE {Append(q, x) : q \in PathsOfLen(n - 1), x \in FsNames}

FsPaths == UNION {PathsOfLen(n) : n \in 1..MaxDepth}

NoEntry == [kind |-> "none", data |-> <<>>, mtime |-> 0]
FileEntry(data, t) == [kind |-> "file", data |-> data, mtime |-> t]
DirEntry(t) == [kind |-> "dir", data |-> <<>>, mtime |-> t]

Exists(f, p) == p = <<>> \/ f[p].kind # "none"
IsFile(f, p) == p # <<>> /\ f[p].kind = "file"
IsDir(f, p) == p = <<>> \/ f[p].kind = "dir"

Dirname(p) == SubSeq(p, 1, Len(p) - 1)

IsPrefix(p, q) == Len(p) <= Len(q) /\ SubSeq(q, 1, Len(p)) = p

(* Adding or removing an entry of directory d at time t updates d's mtime. *)
Touch(f, d, t) == IF d = <<>> THEN f ELSE [f EXCEPT ![d].mtime = t]

(* Path.mkdir(parents=True, exist_ok=True) on q at time t *)
RECURSIVE MkdirP(_, _, _)
MkdirP(f, q, t) ==
    IF IsDir(f, q) THEN [exc |-> "", fs |-> f]
    ELSE IF IsFile(f, q) THEN [exc |-> "FileExistsError", fs |-> f]
    ELSE IF IsFile(f, Dirname(q)) THEN [exc |-> "NotADirectoryError", fs |-> f]
    ELSE LET up == MkdirP(f, Dirname(q), t)
         IN IF up.exc # "" THEN up
            ELSE [exc |-> "",
                  fs |-> Touch([up.fs EXCEPT ![q] = DirEntry(t)], Dirname(q), t)]

(* Text written through open("w", encoding="utf-8"): "\n" becomes
   os.linesep, then the text is encoded. *)
NewlineOut(pf, s) ==
    Flatten([i \in 1..Len(s) |->
                IF s[i] = "LF" /\ pf = "Windows" THEN <<"CR", "LF">> ELSE <<s[i]>>])

EncodeText(pf, s) == Utf8Encode(NewlineOut(pf, s))

(* UTF-8 decoding; ok is FALSE where Python raises UnicodeDecodeError. *)
RECURSIVE Utf8Decode(_)
Utf8Decode(b) ==
    IF b = <<>> THEN [ok |-> TRUE, s |-> <<>>]
    ELSE LET n == IF Len(b) >= 2 /\ SubSeq(b, 1, 2) = Utf8Char("U+E9") THEN 2
                  ELSE IF Len(b) >= 3 /\ SubSeq(b, 1, 3) = Utf8Char("U+20AC") THEN 3
                  ELSE IF Len(b) >= 4 /\ SubSeq(b, 1, 4) = Utf8Char("U+1F600") THEN 4
                  ELSE IF b[1] \in DOMAIN ByteHex THEN 0
                  ELSE 1
             c == CASE n = 2 -> "U+E9" [] n = 3 -> "U+20AC"
                    [] n = 4 -> "U+1F600" [] OTHER -> b[1]
             rest == Utf8Decode(SubSeq(b, n + 1, Len(b)))
         IN IF n = 0 THEN [ok |-> FALSE, s |-> <<>>]
            ELSE [ok |-> rest.ok, s |-> IF rest.ok THEN <<c>> \o rest.s ELSE <<>>]

(* Universal newlines on reading text: "\r\n" and "\r" become "\n". *)
RECURSIVE NewlineIn(_)
NewlineIn(s) ==
    IF s = <<>> THEN <<>>
    ELSE IF s[1] = "CR"
         THEN <<"LF">> \o NewlineIn(SubSeq(s, IF Len(s) >= 2 /\ s[2] = "LF" THEN 3 ELSE 2,
                                           Len(s)))
         ELSE <<s[1]>> \o NewlineIn(Tail(s))

NotAFileError(pf) == IF pf = "Windows" THEN "PermissionError" ELSE "IsADirectoryError"

(* Path.read_bytes() / Path.read_text(encoding="utf-8") *)
DirectRead(pf, f, p, mode) ==
    IF ~Exists(f, p) THEN [exc |-> "FileNotFoundError", v |-> <<>>]
    ELSE IF IsDir(f, p) THEN [exc |-> NotAFileError(pf), v |-> <<>>]
    ELSE IF mode = "bytes" THEN [exc |-> "", v |-> f[p].data]
    ELSE LET d == Utf8Decode(f[p].data)
         IN IF d.ok THEN [exc |-> "", v |-> NewlineIn(d.s)]
            ELSE [exc |-> "UnicodeDecodeError", v |-> <<>>]

(* open(p, "w" / "wb") and write at time t *)
OpenWrite(pf, f, p, data, t) ==
    IF IsDir(f, p) THEN [exc |-> NotAFileError(pf), fs |-> f]
    ELSE [exc |-> "",
          fs |-> IF IsFile(f, p) THEN [f EXCEPT ![p] = FileEntry(data, t)]
                 ELSE Touch([f EXCEPT ![p] = FileEntry(data, t)], Dirname(p), t)]

(* write, lines 119-132 *)
WriteResult(pf, f, pure, content, t) ==
    LET par == ConstructResult(pf, <<PathIn(Parent(pure))>>)
        mk == MkdirP(f, par.obj.parts, t)
        data == IF content.kind = "bytes" THEN content.s
                ELSE EncodeText(pf, content.s)
    IN IF par.exc # "" THEN [exc |-> par.exc, fs |-> f]
       ELSE IF mk.exc # "" THEN mk
       ELSE OpenWrite(pf, mk.fs, pure.parts, data, t)

(* RemoveTree with the entries under p left behind. *)
RemoveOnly(f, p, t) == Touch([f EXCEPT ![p] = NoEntry], Dirname(p), t)

(* shutil.rmtree(p) / Path.unlink(): p and everything under it goes. *)
RemoveTree(f, p, t) ==
    Touch([q \in DOMAIN f |-> IF IsPrefix(p, q) THEN NoEntry ELSE f[q]],
          Dirname(p), t)

(* The entries at and under p. *)
Under(f, p) == {q \in DOMAIN f : IsPrefix(p, q) /\ f[q].kind # "none"}

(* delete, lines 134-143: the exception, the filesystem afterwards, the
   branch taken and the number of entries that were at or under p.  rmtree
   of the current directory empties it and then fails to remove it. *)
DeleteResult(f, p, t) ==
    LET n == Cardinality(Under(f, p))
    IN IF ~Exists(f, p) THEN [exc |-> "", fs |-> f, branch |-> "absent", removed |-> 0]
       ELSE IF IsFile(f, p)
            THEN [exc |-> "", fs |-> RemoveTree(f, p, t), branch |-> "unlink",
                  removed |-> n]
       ELSE IF p = <<>>
            THEN [exc |-> "OSError", fs |-> [q \in DOMAIN f |-> NoEntry],
                  branch |-> "rmtree", removed |-> n]
       ELSE [exc |-> "", fs |-> RemoveTree(f, p, t), branch |-> "rmtree",
             removed |-> n]

---------------------------------------------------------------------------
(* Freshness: datetimes are microsecond counts; an aware one carries its   *)
(* UTC offset, a naive one is read in the local zone (offset localOff).    *)

NoTime == [kind |-> "none", wall |-> 0, off |-> 0]
Naive(w) == [kind |-> "naive", wall |-> w, off |-> 0]
Aware(w, o) == [kind |-> "aware", wall |-> w, off |-> o]

(* datetime.fromtimestamp(m): the naive local time of instant m *)
FromTimestamp(lo, m) == Naive(m + lo)

(* datetime.astimezone(): the same instant in the local zone *)
Astimezone(lo, d) ==
    IF d.kind = "naive" THEN Aware(d.wall, lo)
    ELSE Aware(d.wall - d.off + lo, lo)

(* DtGreater with >= for >. *)
DtGreaterEq(a, b) == a.wall - a.off >= b.wall - b.off

(* a > b on aware datetimes compares instants *)
DtGreater(a, b) == a.wall - a.off > b.wall - b.off

Mtime(f, p) == IF p = <<>> THEN 0 ELSE f[p].mtime

(* aware_mtime, lines 78-84 *)
AwareMtime(lo, f, p) == Astimezone(lo, FromTimestamp(lo, Mtime(f, p)))

(* up_to_date, lines 86-106 *)
UpToDateResult(lo, f, p, ts) ==
    IF ~Exists(f, p) THEN FALSE
    ELSE IF ts.kind = "none" THEN TRUE
    ELSE DtGreater(AwareMtime(lo, f, p), Astimezone(lo, ts))

(* read_text_cached / read_bytes_cached, lines 145-172, on the attribute
   slot: the exception, the value returned and the attribute afterwards. *)
CachedRead(pf, f, p, slot, reload, mode) ==
    IF slot.st = "unset" THEN [exc |-> "AttributeError", v |-> <<>>, slot |-> slot]
    ELSE IF slot.st = "none" \/ slot.v = <<>> \/ reload
         THEN LET r == DirectRead(pf, f, p, mode)
              IN IF r.exc # "" THEN [exc |-> r.exc, v |-> <<>>, slot |-> slot]
                 ELSE [exc |-> "", v |-> r.v, slot |-> SlotVal(r.v)]
    ELSE [exc |-> "", v |-> slot.v, slot |-> slot]

---------------------------------------------------------------------------
(* State.  platform: the host platform.  localOff: the host's UTC offset.  *)
(* objs: the caller's variables, each unbound (NoObj) or bound to an       *)
(* ExtendedPath.  fs, clock: the filesystem and the time.  ret: the last   *)
(* step, with the exception it raised ("" for none), the object it made    *)
(* and the value it returned (for delete, which returns nothing, the       *)
(* branch it took).                                                        *)

(* The caller's variables. *)
Ids == {1, 2}

Ret(op, id, args, reload, exc, obj, val) ==
    [op |-> op, id |-> id, args |-> args, reload |-> reload,
     exc |-> exc, obj |-> obj, val |-> val]

InitWith(platforms, offsets, bases) ==
    /\ platform \in platforms
    /\ localOff \in offsets
    /\ \E b \in bases :
          objs = [i \in Ids |->
                     IF i = 1 THEN ConstructResult(platform, b).obj ELSE NoObj]
    /\ fs = [p \in FsPaths |-> NoEntry]
    /\ clock = 0
    /\ ret = Ret("init", 0, <<>>, FALSE, "", NoObj, <<>>)

(* ExtendedPath(args...), lines 29-46 *)
Construct(args) ==
    LET r == ConstructResult(platform, args)
    IN /\ ret' = Ret("construct", 0, args, FALSE, r.exc, r.obj, <<>>)
       /\ UNCHANGED <<platform, localOff, objs, fs, clock>>

(* objs[id] / key *)
AppendTo(id, key) ==
    /\ objs[id].live
    /\ Len(objs[id].parts) < MaxDepth
    /\ LET r == AppendResult(platform, objs[id], key)
       IN ret' = Ret("append", id, <<key>>, FALSE, r.exc, r.obj, <<>>)
    /\ UNCHANGED <<platform, localOff, objs, fs, clock>>

(* The caller binds variable id to the object the last step made. *)
Keep(id) ==
    /\ ret.obj.live
    /\ objs' = [objs EXCEPT ![id] = ret.obj]
    /\ ret' = Ret("keep", id, <<>>, FALSE, "", NoObj, <<>>)
    /\ UNCHANGED <<platform, localOff, fs, clock>>

(* objs[id].write(content) *)
Write(id, content) ==
    /\ objs[id].live
    /\ LET r == WriteResult(platform, fs, PureOf(objs[id]), content, clock)
       IN /\ fs' = r.fs
          /\ ret' = Ret("write", id, <<content>>, FALSE, r.exc, NoObj, <<>>)
    /\ UNCHANGED <<platform, localOff, objs, clock>>

(* objs[id].delete() *)
Delete(id) ==
    /\ objs[id].live
    /\ LET r == DeleteResult(fs, objs[id].parts, clock)
       IN /\ fs' = r.fs
          /\ ret' = Ret("delete", id, <<>>, FALSE, r.exc, NoObj,
                        [branch |-> r.branch, removed |-> r.removed])
    /\ UNCHANGED <<platform, localOff, objs, clock>>

(* objs[id].up_to_date(ts) *)
UpToDate(id, ts) ==
    /\ objs[id].live
    /\ ret' = Ret("up_to_date", id, <<ts>>, FALSE, "", NoObj,
                  UpToDateResult(localOff, fs, objs[id].parts, ts))
    /\ UNCHANGED <<platform, localOff, objs, fs, clock>>

(* objs[id].outdated(ts), lines 108-117 *)
Outdated(id, ts) ==
    /\ objs[id].live
    /\ ret' = Ret("outdated", id, <<ts>>, FALSE, "", NoObj,
                  ~UpToDateResult(localOff, fs, objs[id].parts, ts))
    /\ UNCHANGED <<platform, localOff, objs, fs, clock>>

(* objs[id].read_text_cached(reload) *)
ReadTextCached(id, reload) ==
    /\ objs[id].live
    /\ LET r == CachedRead(platform, fs, objs[id].parts, objs[id].text, reload, "text")
       IN /\ objs' = [objs EXCEPT ![id].text = r.slot]
          /\ ret' = Ret("read_text_cached", id, <<>>, reload, r.exc, NoObj, r.v)
    /\ UNCHANGED <<platform, localOff, fs, clock>>

(* objs[id].read_bytes_cached(reload) *)
ReadBytesCached(id, reload) ==
    /\ objs[id].live
    /\ LET r == CachedRead(platform, fs, objs[id].parts, objs[id].bytes, reload, "bytes")
       IN /\ objs' = [objs EXCEPT ![id].bytes = r.slot]
          /\ ret' = Ret("read_bytes_cached", id, <<>>, reload, r.exc, NoObj, r.v)
    /\ UNCHANGED <<platform, localOff, fs, clock>>

(* Another process overwrites the regular file p. *)
ExtWrite(p, data) ==
    /\ IsFile(fs, p)
    /\ fs' = [fs EXCEPT ![p] = FileEntry(data, clock)]
    /\ ret' = Ret("ext_write", 0, <<>>, FALSE, "", NoObj, <<>>)
    /\ UNCHANGED <<platform, localOff, objs, clock>>

(* Another process removes the regular file p. *)
ExtDelete(p) ==
    /\ IsFile(fs, p)
    /\ fs' = RemoveTree(fs, p, clock)
    /\ ret' = Ret("ext_delete", 0, <<>>, FALSE, "", NoObj, <<>>)
    /\ UNCHANGED <<platform, localOff, objs, clock>>

(* Time passes. *)
Tick ==
    /\ clock < MaxClock
    /\ clock' = clock + 1
    /\ ret' = Ret("tick", 0, <<>>, FALSE, "", NoObj, <<>>)
    /\ UNCHANGED <<platform, localOff, objs, fs>>

---------------------------------------------------------------------------
(* Inputs of the path specification.                                       *)

TBase == <<"B", "a", "s", "e">>
TCon == <<"C", "O", "N">>
DotTxt == <<".", "t", "x", "t">>
DotExt == <<".", "e", "x", "t">>

(* The 22 reserved device names. *)
DeviceNames ==
    {TCon, <<"P","R","N">>, <<"A","U","X">>, <<"N","U","L">>}
    \cup {<<"C","O","M", Digits[d + 1]>> : d \in 1..9}
    \cup {<<"L","P","T", Digits[d + 1]>> : d \in 1..9}

IllegalChars == {"<", ">", ":", "\"", "/", "\\", "|", "?", "*"}

DeviceTexts ==
    DeviceNames
    \cup {ToLower(n) : n \in {TCon, <<"N","U","L">>, <<"C","O","M","1">>, <<"L","P","T","9">>}}
    \cup {<<"C", "o", "n">>}
    \cup {n \o DotTxt : n \in {TCon, <<"N","U","L">>, <<"C","O","M","1">>, <<"L","P","T","9">>}}
    \cup {ToLower(TCon) \o DotTxt}

IllegalCharTexts == {<<c>> : c \in IllegalChars} \cup {<<c>> \o DotExt : c \in IllegalChars}

TrailingTexts == {<<"x", " ">>, <<"x", ".">>, <<".">>, <<".", ".">>}

(* 255, 256, 256 and 270 bytes of UTF-8 *)
LongTexts ==
    {Rep("U+1F600", 63) \o Rep("a", 3), Rep("a", 256), Rep("U+1F600", 64),
     Rep("U+20AC", 90)}

PlainTexts == {TBase, <<"x">>, <<"x">> \o DotTxt, <<"U+E9">>, <<"U+0">>}

PathTexts == DeviceTexts \cup IllegalCharTexts \cup TrailingTexts \cup LongTexts
                 \cup PlainTexts

PathInputs ==
    {StrIn(t) : t \in PathTexts}
    \cup {BytesIn(Utf8Encode(t)) : t \in {<<"x">>, TCon, <<"U+E9">>, <<"x", ".">>}}
    \cup {IntIn(123), IntIn(0 - 5), FloatIn(123456, 3), DateIn(2020, 1, 1),
          DatetimeIn(1577865600, 500000), PathIn(Pure(FALSE, <<TBase>>))}

PathArgLists ==
    {<<v>> : v \in PathInputs}
    \cup {<<StrIn(TBase), v>> : v \in {StrIn(<<"x">>), StrIn(TCon), StrIn(<<".">>)}}
    \cup {<<>>}

(* The path specification starts with variable 1 bound to a base path, as
   BASE_PATH of the tests is. *)
PathBases == {<<StrIn(TBase)>>, <<StrIn(<<"x">>)>>}

Init == InitWith(Platforms, {0}, PathBases)

Next ==
    \/ \E args \in PathArgLists : Construct(args)
    \/ \E key \in PathInputs : AppendTo(1, key)

Spec == Init /\ [][Next]_vars

---------------------------------------------------------------------------
(* The cache specification: two variables, the file a and the path a/b,    *)
(* cached and direct access, and other processes writing and deleting.     *)

TA == <<"a">>
TB == <<"b">>

CachePlatforms == {"Linux", "Windows"}
CacheArgs == {<<StrIn(TA)>>}
CacheKeys == {StrIn(TB), StrIn(<<"U+0">>)}
CacheContents == {StrIn(<<>>), StrIn(<<"x">>)}
CacheData == {<<"x">>}

InitCache == InitWith(CachePlatforms, {0}, CacheArgs)

NextCache ==
    \/ \E args \in CacheArgs : Construct(args)
    \/ \E id \in Ids, key \in CacheKeys : AppendTo(id, key)
    \/ \E id \in Ids : Keep(id)
    \/ \E id \in Ids, reload \in BOOLEAN : ReadTextCached(id, reload)
    \/ \E id \in Ids, reload \in BOOLEAN : ReadBytesCached(id, reload)
    \/ \E id \in Ids, c \in CacheContents : Write(id, c)
    \/ \E id \in Ids : Delete(id)
    \/ \E p \in FsPaths, d \in CacheData : ExtWrite(p, d)
    \/ \E p \in FsPaths : ExtDelete(p)

SpecCache == InitCache /\ [][NextCache]_vars

---------------------------------------------------------------------------
(* The filesystem specification: one variable over the paths a, b and      *)
(* below them, written and deleted.                                        *)

FsPlatforms == {"Linux", "Windows"}
FsArgs == {<<StrIn(TA)>>, <<StrIn(TB)>>}
FsKeys == {StrIn(TB)}
FsContents == {StrIn(<<"x">>), StrIn(<<"CR">>), StrIn(<<"LF">>), BytesIn(<<"x">>)}

InitFS == InitWith(FsPlatforms, {0}, FsArgs)

NextFS ==
    \/ \E args \in FsArgs : Construct(args)
    \/ \E key \in FsKeys : AppendTo(1, key)
    \/ Keep(1)
    \/ \E c \in FsContents : Write(1, c)
    \/ Delete(1)

SpecFS == InitFS /\ [][NextFS]_vars

---------------------------------------------------------------------------
(* The freshness specification: the path a and the path a/b, written,      *)
(* deleted and queried as time passes, on hosts at UTC and at UTC+1.       *)

FreshContents == {BytesIn(<<"x">>)}
LocalOffsets == {0, 1}
Times ==
    {NoTime} \cup {Naive(w) : w \in 0..MaxClock}
    \cup {Aware(w, o) : w \in 0..MaxClock, o \in LocalOffsets}

InitFresh == InitWith(FsPlatforms, LocalOffsets, CacheArgs)

NextFresh ==
    \/ \E args \in CacheArgs : Construct(args)
    \/ \E key \in FsKeys : AppendTo(1, key)
    \/ Keep(1)
    \/ \E c \in FreshContents : Write(1, c)
    \/ Delete(1)
    \/ \E ts \in Times : UpToDate(1, ts)
    \/ \E ts \in Times : Outdated(1, ts)
    \/ Tick

SpecFresh == InitFresh /\ [][NextFresh]_vars

---------------------------------------------------------------------------
(* Properties.                                                             *)

(* The two failure kinds of the specification, as ValidationError reasons. *)
IllegalNameReasons == {"RESERVED_NAME", "INVALID_CHARACTER"}

(* The last step was construct(t) or append(base, t) for a text t. *)
PathOpOnText ==
    /\ ret.op \in {"construct", "append"}
    /\ Len(ret.args) = 1
    /\ ret.args[1].kind = "str"

RejectedAsIllegal == ret.exc \in IllegalNameReasons /\ ~ret.obj.live

(* t is a device name in any letter case, bare or followed by an extension. *)
IsDeviceText(t) ==
    \E n \in DeviceNames :
        /\ Len(t) >= Len(n)
        /\ ToUpper(SubSeq(t, 1, Len(n))) = n
        /\ \/ Len(t) = Len(n)
           \/ /\ Len(t) > Len(n) + 1
              /\ t[Len(n) + 1] = "."
              /\ \A i \in (Len(n) + 2)..Len(t) : t[i] \notin {".", " "} \cup IllegalChars

(* C1: constructing or appending a reserved device name, in any letter case,
   with or without an extension, raises the illegal-name failure and makes
   no path, on every platform. *)
C1_DeviceNamesRejected ==
    (PathOpOnText /\ IsDeviceText(ret.args[1].s)) => RejectedAsIllegal

(* C2: constructing or appending c or c.ext, for each of the nine illegal
   characters c (the separators / and \ among them), raises the illegal-name
   failure and makes no path. *)
C2_IllegalCharsRejected ==
    (PathOpOnText /\ ret.args[1].s \in IllegalCharTexts) => RejectedAsIllegal

(* C3: constructing or appending a segment that ends with a period or a
   space ("." and ".." included) raises the illegal-name failure and makes
   no path. *)
C3_TrailingRejected ==
    (/\ PathOpOnText
     /\ ret.args[1].s # <<>>
     /\ ret.args[1].s[Len(ret.args[1].s)] \in {".", " "}) => RejectedAsIllegal

(* C4: constructing or appending a segment of more than 255 UTF-8 bytes
   raises the name-too-long failure and makes no path. *)
C4_LongSegmentRejected ==
    (/\ PathOpOnText
     /\ \A i \in 1..Len(ret.args[1].s) : ret.args[1].s[i] \notin {"/", "\\"}
     /\ Utf8Len(ret.args[1].s) > 255)
        => (ret.exc = "INVALID_LENGTH" /\ ~ret.obj.live)

(* C10: constructing from the UTF-8 bytes of a text s fails exactly when
   constructing from s fails, and otherwise makes an equal path. *)
C10_BytesDecoded ==
    (/\ ret.op = "construct"
     /\ Len(ret.args) = 1
     /\ ret.args[1].kind = "bytes"
     /\ Utf8Decode(ret.args[1].s).ok)
        => LET r == ConstructResult(platform, <<StrIn(Utf8Decode(ret.args[1].s).s)>>)
           IN ret.exc = r.exc /\ PureOf(ret.obj) = PureOf(r.obj)

(* The primed step is a cached read of mode m ("text" or "bytes") on id. *)
CachedReadStep(id, m) ==
    /\ ret'.op = (IF m = "text" THEN "read_text_cached" ELSE "read_bytes_cached")
    /\ ret'.id = id

SlotOf(o, m) == IF m = "text" THEN o.text ELSE o.bytes

(* C5: once a cached read has returned v (the empty text or byte sequence
   included), every call with reload=false returns v again, whatever
   happened to the file since. *)
C5_CachedValueStable ==
    [][\A id \in Ids, m \in {"text", "bytes"} :
          (/\ CachedReadStep(id, m)
           /\ ~ret'.reload
           /\ SlotOf(objs[id], m).st = "val")
              => (ret'.exc = "" /\ ret'.val = SlotOf(objs[id], m).v)]_vars

(* The ancestors of p are directories. *)
AncestorsExist(f, p) == \A k \in 0..(Len(p) - 1) : IsDir(f, SubSeq(p, 1, k))

(* C6: write(p, c) raises nothing; afterwards every ancestor of p is a
   directory and a direct read of p in c's mode returns exactly c. *)
C6_WriteRoundTrip ==
    ret.op = "write" =>
        LET p == objs[ret.id].parts
            c == ret.args[1]
            r == DirectRead(platform, fs, p, IF c.kind = "bytes" THEN "bytes" ELSE "text")
        IN ret.exc = "" /\ AncestorsExist(fs, p) /\ r.exc = "" /\ r.v = c.s

(* The instant a reference time denotes: a naive one is local time. *)
Instant(ts) == IF ts.kind = "naive" THEN ts.wall - localOff ELSE ts.wall - ts.off

(* C7: up_to_date(p, t) is false when p does not exist, true when p exists
   and no t is given, and otherwise true exactly when p's modification time
   is strictly later than t. *)
C7_UpToDate ==
    ret.op = "up_to_date" =>
        LET p == objs[ret.id].parts
            ts == ret.args[1]
        IN ret.val = (/\ Exists(fs, p)
                      /\ (ts.kind = "none" \/ Mtime(fs, p) > Instant(ts)))

(* up_to_date has just answered false for an existing path whose
   modification time equals a naive reference time on a host off UTC. *)
C7_Witness ==
    /\ ret.op = "up_to_date"
    /\ localOff # 0
    /\ Exists(fs, objs[ret.id].parts)
    /\ ret.args[1].kind = "naive"
    /\ Mtime(fs, objs[ret.id].parts) = Instant(ret.args[1])
    /\ ret.val = FALSE

(* C8: delete(p) raises nothing; afterwards nothing exists at or under p,
   every path outside p's subtree is as it was (kind and content; removing
   p updates the modification time of p's directory), and when nothing
   existed at p the filesystem is unchanged. *)
C8_Delete ==
    [][ret'.op = "delete" =>
          LET p == objs[ret'.id].parts
          IN /\ ret'.exc = ""
             /\ \A q \in FsPaths :
                   IF IsPrefix(p, q) THEN fs'[q].kind = "none"
                   ELSE fs'[q].kind = fs[q].kind /\ fs'[q].data = fs[q].data
             /\ ~Exists(fs, p) => fs' = fs]_vars

(* delete has just removed a directory together with what was nested in
   it, while a file exists elsewhere. *)
C8_Witness ==
    /\ ret.op = "delete"
    /\ ret.val.branch = "rmtree"
    /\ ret.val.removed >= 2
    /\ ~Exists(fs, objs[ret.id].parts)
    /\ \E q \in FsPaths : IsFile(fs, q)

(* C9: append leaves the variables' objects as they were, whether it
   raises or not; the path it returns has both cache slots empty, so that a
   cached read on a path never fails for want of a slot. *)
C9_AppendFreshSlots ==
    [][/\ ret'.op = "append" =>
             /\ objs' = objs
             /\ ret'.exc = ""
                   => (/\ ret'.obj.live
                       /\ ret'.obj.text = SlotNone
                       /\ ret'.obj.bytes = SlotNone)
       /\ ret'.op \in {"read_text_cached", "read_bytes_cached"}
             => ret'.exc # "AttributeError"]_vars

=============================================================================
